---- MODULE Spec2Model ----
(***************************************************************************)
(* yabs (Yet Another Backup Script), src/main.py.                          *)
(*                                                                         *)
(* The store is the destination directory: one subdirectory per retention  *)
(* category, each holding archive files and the ledger metadata.txt.       *)
(* One command runs at a time (main() dispatches one args.command per      *)
(* process); every command reads the same configuration file.  backup is  *)
(* split at its file-system operations so that a failure or an interrupt   *)
(* can fall between any two of them; ls and prune are single steps.        *)
(***************************************************************************)
EXTENDS Integers, Sequences, FiniteSets, TLC

\* ---- bounds of the model ------------------------------------------------
MaxClock == 2          \* the wall clock runs over 0..MaxClock ticks
MaxCount == 1          \* retention counts range over -1..MaxCount
MaxCommands == 3       \* commands run against the destination

\* ---- values --------------------------------------------------------------
backup_categories == <<"daily", "weekly", "monthly", "yearly">>

Categories == {backup_categories[i] : i \in DOMAIN backup_categories}

Counts == (0 - 1)..MaxCount

\* the directory lists a configuration may carry, each directory a number
DirectoryLists == {<<1>>, <<1, 2>>}

\* config["backup"] as load_config returns it (the destination is fixed)
Configs == [directories : DirectoryLists,
            days : Counts, weeks : Counts, months : Counts, years : Counts]

metadata_txt == <<"metadata.txt">>

\* the byte block tarfile/zstd write when the archive is closed normally
EndOfArchive == 0

VARIABLES
    clock,             \* wall clock, in ticks
    config,            \* the configuration file
    dirs,              \* categories whose directory exists under destination
    files,             \* files[c]: archive name -> bytes, the files of c
    ledger,            \* ledger[c]: the lines of c's metadata.txt
    cmd,               \* args.command of the current or last invocation
    pc,                \* next step of the invocation, "done" when it ended
    outcome,           \* how the last invocation ended
    backup_category,   \* backup(): backup_category
    archive_name,      \* backup(): archive_name
    tar,               \* backup(): the archive being written by this run
    added,             \* backup(): directories already passed to tar.add
    sha256_hash,       \* backup(): sha256_hash
    ls_out,            \* list_backups(): filenames printed, per category
    before,            \* the store when the invocation started
    ncmd               \* invocations started so far

vars == <<clock, config, dirs, files, ledger, cmd, pc, outcome,
          backup_category, archive_name, tar, added, sha256_hash,
          ls_out, before, ncmd>>

store == <<dirs, files, ledger>>

locals == <<backup_category, archive_name, tar, added, sha256_hash>>

\* ---- pure functions ------------------------------------------------------

\* lines 133 and 135-140: what backup reads from the configuration
directories == config.directories

retention_policy ==
    [days |-> config.days, weeks |-> config.weeks,
     months |-> config.months, years |-> config.years]

\* the classifier with a fallback category in place of the raise
determine_backup_category_default_yearly(policy) ==
    IF policy.days > 0 THEN "daily"
    ELSE IF policy.weeks > 0 THEN "weekly"
    ELSE IF policy.months > 0 THEN "monthly"
    ELSE "yearly"

\* the classifier with the months test ahead of the weeks test
determine_backup_category_months_first(policy) ==
    IF policy.days > 0 THEN "daily"
    ELSE IF policy.months > 0 THEN "monthly"
    ELSE IF policy.weeks > 0 THEN "weekly"
    ELSE IF policy.years > 0 THEN "yearly"
    ELSE "ValueError"

\* determine_backup_category: "ValueError" stands for the raise
determine_backup_category(policy) ==
    IF policy.days > 0 THEN "daily"
    ELSE IF policy.weeks > 0 THEN "weekly"
    ELSE IF policy.months > 0 THEN "monthly"
    ELSE IF policy.years > 0 THEN "yearly"
    ELSE "ValueError"

\* time.strftime("%Y%m%d-%H%M%S"): the clock, two ticks a second, cut to
\* whole seconds
strftime(t) == t \div 2

\* f"backup-{timestamp}.tar.zst"
ArchiveName(timestamp) == <<"backup-", timestamp, ".tar.zst">>

\* hashlib.sha256(): the state of a digest that has read nothing
sha256_new == 7

\* sha256.update(byte_block), over the blocks in order; the digest is cut
\* to a small range, which keeps it a function of every block and of
\* their order
RECURSIVE sha256_update(_, _)
sha256_update(h, blocks) ==
    IF blocks = <<>> THEN h
    ELSE sha256_update((h * 31 + Head(blocks) + 1) % 251, Tail(blocks))

\* the digest that reads one block and stops
generate_sha256_first_block(blocks) ==
    sha256_update(sha256_new, SubSeq(blocks, 1, 1))

\* generate_sha256: the digest of the file's blocks, read front to back
\* until read() returns b""
generate_sha256(blocks) == sha256_update(sha256_new, blocks)

\* f"{archive_name} {sha256_hash}\n"
LedgerLine(name, hash) == <<name, hash>>

\* the ledger write that names the archive from the clock once more
update_metadata_retimed(lines, name, hash) ==
    Append(lines, LedgerLine(ArchiveName(strftime(clock)), hash))

\* the ledger write with open(metadata_file, "w")
update_metadata_truncating(lines, name, hash) == <<LedgerLine(name, hash)>>

\* update_metadata: open(metadata_file, "a") and write one line
update_metadata(lines, name, hash) == Append(lines, LedgerLine(name, hash))

\* open(archive_path, "wb"): create the file, or truncate the one there
open_wb(dir, name) == (name :> <<>>) @@ dir

\* a write to the open archive: the bytes go to the end of the file
write(dir, name, bytes) == [dir EXCEPT ![name] = @ \o bytes]

\* list_backups.load_metadata: the first word of every ledger line
load_metadata(lines) == {lines[i][1] : i \in DOMAIN lines}

\* os.listdir(category_path): the archives, and the ledger once it is written
listdir(c) == DOMAIN files[c] \cup (IF ledger[c] # <<>> THEN {metadata_txt} ELSE {})

\* os.path.isfile: backup creates regular files only
isfile(c, filename) == filename \in listdir(c)

\* the order of filenames as strings: "backup-<timestamp>..." by timestamp,
\* and "metadata.txt" after every "backup-..."
NameLess(a, b) ==
    IF a = metadata_txt THEN FALSE
    ELSE IF b = metadata_txt THEN TRUE
    ELSE a[2] < b[2]

\* sorted(names, reverse=True)
RECURSIVE sorted_reverse(_)
sorted_reverse(names) ==
    IF names = {} THEN <<>>
    ELSE LET m == CHOOSE x \in names : \A y \in names \ {x} : NameLess(y, x)
         IN  <<m>> \o sorted_reverse(names \ {m})

\* the filter without the test against the ledger
Listed_any_file(c, filename) ==
    /\ isfile(c, filename)
    /\ filename # metadata_txt

\* the filter of list_backups' loop
Listed(c, filename) ==
    /\ isfile(c, filename)
    /\ filename \in load_metadata(ledger[c])
    /\ filename # metadata_txt

\* the filenames list_backups prints under one category's heading
list_category(c) ==
    IF c \in dirs
    THEN SelectSeq(sorted_reverse(listdir(c)), LAMBDA f : Listed(c, f))
    ELSE <<>>

\* ---- Init ----------------------------------------------------------------
EmptyStore ==
    [dirs |-> {},
     files |-> [c \in Categories |-> <<>>],
     ledger |-> [c \in Categories |-> <<>>]]

Init ==
    /\ clock = 0
    /\ config \in Configs
    /\ dirs = EmptyStore.dirs
    /\ files = EmptyStore.files
    /\ ledger = EmptyStore.ledger
    /\ cmd = "none"
    /\ pc = "done"
    /\ outcome = "none"
    /\ backup_category = "none"
    /\ archive_name = <<>>
    /\ tar = "none"
    /\ added = 0
    /\ sha256_hash = 0
    /\ ls_out = [c \in Categories |-> <<>>]
    /\ before = EmptyStore
    /\ ncmd = 0

\* ---- the clock -----------------------------------------------------------
Tick ==
    /\ clock < MaxClock
    /\ clock' = clock + 1
    /\ UNCHANGED <<config, store, cmd, pc, outcome, locals, ls_out, before, ncmd>>

\* ---- main(): one command per process, with fresh locals -------------------
Invoke(command) ==
    /\ pc = "done"
    /\ ncmd < MaxCommands
    /\ ncmd' = ncmd + 1
    /\ cmd' = command
    /\ before' = [dirs |-> dirs, files |-> files, ledger |-> ledger]

\* ---- backup --------------------------------------------------------------
\* lines 131-151: load the configuration, classify, name the archive and
\* make the category's directory
BackupStart ==
    /\ Invoke("backup")
    /\ tar' = "none"
    /\ added' = 0
    /\ sha256_hash' = 0
    /\ backup_category' = determine_backup_category(retention_policy)
    /\ IF determine_backup_category(retention_policy) = "ValueError"
       THEN /\ pc' = "done"
            /\ outcome' = "ValueError"
            /\ archive_name' = <<>>
            /\ dirs' = dirs
       ELSE /\ pc' = "open"
            /\ outcome' = "running"
            /\ archive_name' = ArchiveName(strftime(clock))
            /\ dirs' = dirs \cup {determine_backup_category(retention_policy)}
    /\ UNCHANGED <<clock, config, files, ledger, ls_out>>

\* lines 155-157: open(archive_path, "wb") and the two writers on top of it
OpenArchive ==
    /\ cmd = "backup" /\ pc = "open"
    /\ files' = [files EXCEPT ![backup_category] = open_wb(@, archive_name)]
    /\ tar' = "unfinished"
    /\ pc' = "add"
    /\ UNCHANGED <<clock, config, dirs, ledger, cmd, outcome, backup_category,
                   archive_name, added, sha256_hash, ls_out, before, ncmd>>

\* lines 158-159: tar.add of the next directory; it raises when the
\* directory cannot be read, and the with blocks close the file as it is
TarAdd(readable) ==
    /\ cmd = "backup" /\ pc = "add"
    /\ added < Len(directories)
    /\ IF readable
       THEN /\ files' = [files EXCEPT ![backup_category] =
                            write(@, archive_name, <<directories[added + 1]>>)]
            /\ added' = added + 1
            /\ UNCHANGED <<pc, outcome>>
       ELSE /\ pc' = "done"
            /\ outcome' = "OSError"
            /\ UNCHANGED <<files, added>>
    /\ UNCHANGED <<clock, config, dirs, ledger, cmd, backup_category,
                   archive_name, tar, sha256_hash, ls_out, before, ncmd>>

\* the with blocks of lines 155-157 end: the archive is finished and closed
CloseArchive ==
    /\ cmd = "backup" /\ pc = "add"
    /\ added = Len(directories)
    /\ files' = [files EXCEPT ![backup_category] =
                    write(@, archive_name, <<EndOfArchive>>)]
    /\ tar' = "finished"
    /\ pc' = "hash"
    /\ UNCHANGED <<clock, config, dirs, ledger, cmd, outcome, backup_category,
                   archive_name, added, sha256_hash, ls_out, before, ncmd>>

\* line 162
GenerateSha256 ==
    /\ cmd = "backup" /\ pc = "hash"
    /\ sha256_hash' = generate_sha256(files[backup_category][archive_name])
    /\ pc' = "metadata"
    /\ UNCHANGED <<clock, config, store, cmd, outcome, backup_category,
                   archive_name, tar, added, ls_out, before, ncmd>>

\* lines 163-165
UpdateMetadata ==
    /\ cmd = "backup" /\ pc = "metadata"
    /\ ledger' = [ledger EXCEPT ![backup_category] =
                     update_metadata(@, archive_name, sha256_hash)]
    /\ pc' = "done"
    /\ outcome' = "ok"
    /\ UNCHANGED <<clock, config, dirs, files, cmd, locals, ls_out, before, ncmd>>

\* KeyboardInterrupt (or a kill) between two steps of backup: nothing in
\* backup catches it, so the store stays as the last step left it
Interrupt ==
    /\ cmd = "backup" /\ pc # "done"
    /\ pc' = "done"
    /\ outcome' = "interrupted"
    /\ UNCHANGED <<clock, config, store, cmd, locals, ls_out, before, ncmd>>

\* ---- ls ------------------------------------------------------------------
ListBackups ==
    /\ Invoke("ls")
    /\ ls_out' = [c \in Categories |-> list_category(c)]
    /\ pc' = "done"
    /\ outcome' = "ok"
    /\ UNCHANGED <<clock, config, store, locals>>

\* ---- prune ---------------------------------------------------------------
\* lines 255-259: load the configuration and print
\* "Prune command not yet implemented."
Prune ==
    /\ Invoke("prune")
    /\ pc' = "done"
    /\ outcome' = "ok"
    /\ UNCHANGED <<clock, config, store, locals, ls_out>>

\* ---- outside the program --------------------------------------------------
\* an archive file is removed from a category's directory between two
\* commands, by something other than yabs
RemoveArchive(c, name) ==
    /\ pc = "done"
    /\ name \in DOMAIN files[c]
    /\ files' = [files EXCEPT ![c] = [n \in DOMAIN @ \ {name} |-> @[n]]]
    /\ UNCHANGED <<clock, config, dirs, ledger, cmd, pc, outcome, locals,
                   ls_out, before, ncmd>>

\* ---- the specifications ---------------------------------------------------
Next ==
    \/ Tick
    \/ BackupStart
    \/ OpenArchive
    \/ \E readable \in BOOLEAN : TarAdd(readable)
    \/ CloseArchive
    \/ GenerateSha256
    \/ UpdateMetadata
    \/ Interrupt
    \/ ListBackups
    \/ Prune

\* the program alone
Spec == Init /\ [][Next]_vars

NextEnv ==
    \/ Next
    \/ \E c \in Categories, t \in 0..MaxClock : RemoveArchive(c, ArchiveName(t))

\* the program, and archive files that disappear behind its back
SpecEnv == Init /\ [][NextEnv]_vars

\* ---- properties -----------------------------------------------------------

\* the retention count a policy gives a category
CountFor(policy, c) ==
    CASE c = "daily" -> policy.days
      [] c = "weekly" -> policy.weeks
      [] c = "monthly" -> policy.months
      [] c = "yearly" -> policy.years

SomeCountPositive(policy) == \E c \in Categories : CountFor(policy, c) > 0

\* the filenames of the lines of a ledger
NamesIn(lines) == {lines[i][1] : i \in DOMAIN lines}

BackupEnded == cmd = "backup" /\ pc = "done"

BackupSucceeded == BackupEnded /\ outcome = "ok"

\* C1: after a backup run that completes successfully, the ledger of the
\* category the classifier chose holds exactly one more entry than before
\* the run, that entry names the archive file the run wrote, and its digest
\* is the SHA-256 digest of that file's bytes as they are on disk then.
C1_LedgerEntryMatchesArchive ==
    BackupSucceeded =>
        LET old == before.ledger[backup_category]
            new == ledger[backup_category]
        IN  /\ Len(new) = Len(old) + 1
            /\ new[Len(new)][1] = archive_name
            /\ archive_name \in DOMAIN files[backup_category]
            /\ new[Len(new)][2] =
                   sha256_update(sha256_new, files[backup_category][archive_name])

\* C1's case: a successful run of two directories onto a ledger that
\* already had a line
C1_Witness ==
    /\ BackupSucceeded
    /\ Len(before.ledger[backup_category]) > 0
    /\ Len(files[backup_category][archive_name]) = 3

\* C2: in every reachable state, a run interrupted at any step included,
\* every entry of a category's ledger names an archive file that exists in
\* that category's directory.
C2_LedgerEntriesHaveFiles ==
    \A c \in Categories :
        \A i \in DOMAIN ledger[c] :
            c \in dirs /\ ledger[c][i][1] \in DOMAIN files[c]

\* C2's case: a run that was interrupted after it opened its archive, in a
\* category whose ledger has an entry
C2_Witness ==
    /\ BackupEnded /\ outcome = "interrupted" /\ tar # "none"
    /\ Len(ledger[backup_category]) > 0
    /\ archive_name \notin NamesIn(ledger[backup_category])

\* a run that failed or was cancelled after it opened the archive file and
\* before the archive was complete
FailedMidArchive ==
    BackupEnded /\ outcome \in {"OSError", "interrupted"} /\ tar = "unfinished"

\* C3: when a backup run fails or is cancelled after the archive file was
\* opened and before the archive is complete, the category's directory
\* holds no partial archive file of that run and the ledger has no entry
\* that names it.
C3_NoPartialArchiveLeft ==
    FailedMidArchive =>
        /\ archive_name \notin DOMAIN files[backup_category]
        /\ archive_name \notin NamesIn(ledger[backup_category])

\* C4: a backup run whose policy has no positive count fails with the
\* invalid-policy error and leaves the store as it was before the run: no
\* directory made, no archive written, no ledger line appended.
C4_InvalidPolicyChangesNothing ==
    (cmd = "backup" /\ ~SomeCountPositive(retention_policy)) =>
        /\ pc = "done"
        /\ outcome = "ValueError"
        /\ dirs = before.dirs
        /\ files = before.files
        /\ ledger = before.ledger

\* C4's case: a backup run under a policy with a negative count and no
\* positive one
C4_Witness ==
    /\ BackupEnded
    /\ ~SomeCountPositive(retention_policy)
    /\ \E c \in Categories : CountFor(retention_policy, c) < 0

\* the first category, in the order daily, weekly, monthly, yearly, whose
\* count is positive
FirstPositive(policy) ==
    LET i == CHOOSE j \in DOMAIN backup_categories :
                 /\ CountFor(policy, backup_categories[j]) > 0
                 /\ \A k \in 1..(j - 1) : CountFor(policy, backup_categories[k]) <= 0
    IN  backup_categories[i]

\* C5: for every policy with a positive count the classifier does not fail
\* and returns the first category in the order daily, weekly, monthly,
\* yearly whose count is positive.
C5_ClassifierFirstPositive ==
    (cmd = "backup" /\ SomeCountPositive(retention_policy)) =>
        /\ outcome # "ValueError"
        /\ backup_category = FirstPositive(retention_policy)

\* C5's case: a run classified under a policy whose days count is not
\* positive and whose weeks and months counts both are
C5_Witness ==
    /\ cmd = "backup"
    /\ retention_policy.days <= 0
    /\ retention_policy.weeks > 0
    /\ retention_policy.months > 0
    /\ backup_category = "weekly"

\* C6: archive filenames never collide: no two entries of a category's
\* ledger carry the same filename, and no run writes to an archive file
\* that an earlier run created and recorded.
C6_FilenamesNeverCollide ==
    /\ \A c \in Categories :
           \A i, j \in DOMAIN ledger[c] :
               i # j => ledger[c][i][1] # ledger[c][j][1]
    /\ (cmd = "backup" /\ pc \in {"add", "hash", "metadata"}) =>
           archive_name \notin NamesIn(ledger[backup_category])

\* C7: ls prints a filename under a category only if the name is in that
\* category's ledger and a file of that name exists in the category's
\* directory; the ledger file itself is never listed.
C7_ListedOnlyIfInLedgerAndOnDisk ==
    (cmd = "ls" /\ pc = "done") =>
        \A c \in Categories :
            \A i \in DOMAIN ls_out[c] :
                /\ \E j \in DOMAIN ledger[c] : ledger[c][j][1] = ls_out[c][i]
                /\ ls_out[c][i] \in DOMAIN files[c]
                /\ ls_out[c][i] # metadata_txt

\* C7's case: ls over a category that holds a recorded archive, which it
\* prints, and a file that no ledger line names
C7_Witness ==
    /\ cmd = "ls" /\ pc = "done"
    /\ \E c \in Categories :
           /\ Len(ls_out[c]) > 0
           /\ \E n \in DOMAIN files[c] : n \notin NamesIn(ledger[c])

\* C8: when a category's ledger has an entry whose archive file is not on
\* disk, ls reports that entry; it is not dropped from the output.
C8_MissingFileReported ==
    (cmd = "ls" /\ pc = "done") =>
        \A c \in before.dirs :
            \A i \in DOMAIN before.ledger[c] :
                before.ledger[c][i][1] \notin DOMAIN before.files[c] =>
                    \E j \in DOMAIN ls_out[c] : ls_out[c][j] = before.ledger[c][i][1]

\* C9: for a policy whose count for a category is n, after k > n sequential
\* successful backups into that category (k distinct archives, all recorded
\* and on disk), prune leaves exactly n archives in the ledger and in the
\* directory.
C9_PruneKeepsCount ==
    (cmd = "prune" /\ pc = "done") =>
        \A c \in Categories :
            LET n == CountFor(retention_policy, c)
                k == Len(before.ledger[c])
            IN  (/\ c = determine_backup_category(retention_policy)
                 /\ Cardinality(NamesIn(before.ledger[c])) = k
                 /\ NamesIn(before.ledger[c]) = DOMAIN before.files[c]
                 /\ k > n)
                => /\ Len(ledger[c]) = n
                   /\ Cardinality(DOMAIN files[c]) = n

\* whether one sequence starts with another
IsPrefix(s, t) == Len(s) <= Len(t) /\ SubSeq(t, 1, Len(s)) = s

\* C10: a backup run classified into a category only appends: the lines
\* already in that category's ledger stay, in order, as a prefix of the
\* ledger, and the ledgers and archive files of the other categories are
\* left as they were.
C10_BackupOnlyAppends ==
    [][cmd' = "backup" =>
          /\ \A c \in Categories : IsPrefix(ledger[c], ledger'[c])
          /\ \A c \in Categories \ {backup_category'} :
                 ledger'[c] = ledger[c] /\ files'[c] = files[c]]_vars

\* C10's case: a successful run into a category whose ledger had a line
C10_Witness ==
    /\ BackupSucceeded
    /\ Len(before.ledger[backup_category]) > 0
    /\ Len(ledger[backup_category]) = Len(before.ledger[backup_category]) + 1

====
